---- MODULE Spec2Model ----
(***************************************************************************)
(* Lead-aggregation job of ClientScout-AI (src/main.py): credit check,     *)
(* region anchor, query generation with fallback, the search / poll /      *)
(* abort loop with job-wide dedup and geographic validation, and the       *)
(* final output.                                                           *)
(*                                                                         *)
(* A Python str is a sequence of one-character strings; None is NoneVal.   *)
(***************************************************************************)
EXTENDS Integers, Sequences, FiniteSets, TLC

\* ------------------------------------------------------------------------
\* Python string primitives used by the program
\* ------------------------------------------------------------------------

\* None: a value different from every str
NoneVal == <<"None">>

\* truthiness of an Optional[str]: None and "" are falsy
Truthy(s) == s # NoneVal /\ s # <<>>

MinOf(S) == CHOOSE x \in S : \A y \in S : x <= y

MaxOf(S) == CHOOSE x \in S : \A y \in S : x >= y

UpperCase == <<"A","B","C","D","E","F","G","H","I","J","K","L","M","N","O","P","Q","R","S","T","U","V","W","X","Y","Z">>

LowerCase == <<"a","b","c","d","e","f","g","h","i","j","k","l","m","n","o","p","q","r","s","t","u","v","w","x","y","z">>

\* upper-case letter -> lower-case letter
ToLower ==
  [c \in {UpperCase[i] : i \in 1..Len(UpperCase)} |->
     LowerCase[CHOOSE i \in 1..Len(UpperCase) : UpperCase[i] = c]]

LowerChar(c) == IF c \in DOMAIN ToLower THEN ToLower[c] ELSE c

\* str.lower()
Lower(s) == [i \in 1..Len(s) |-> LowerChar(s[i])]

\* str.strip()
Strip(s) ==
  LET keep == {i \in 1..Len(s) : s[i] # " "}
  IN  IF keep = {} THEN <<>> ELSE SubSeq(s, MinOf(keep), MaxOf(keep))

\* str.split(): the maximal runs of non-whitespace characters
RECURSIVE Split(_)
Split(s) ==
  LET keep == {i \in 1..Len(s) : s[i] # " "}
  IN  IF keep = {} THEN <<>>
      ELSE LET a == MinOf(keep)
               ends == {j \in a..Len(s) : s[j] = " "}
               b == IF ends = {} THEN Len(s) + 1 ELSE MinOf(ends)
           IN  <<SubSeq(s, a, b - 1)>> \o Split(SubSeq(s, b, Len(s)))

\* sep.join(parts)
RECURSIVE Join(_, _)
Join(sep, parts) ==
  IF parts = <<>> THEN <<>>
  ELSE IF Len(parts) = 1 THEN parts[1]
  ELSE parts[1] \o sep \o Join(sep, Tail(parts))

\* needle in hay (both operands are evaluated once, as Python does)
Contains(hay, needle) ==
  \E h \in {hay}, n \in {needle} :
    \E i \in 0..(Len(h) - Len(n)) : SubSeq(h, i + 1, i + Len(n)) = n

\* s.replace(" ", "")
RemoveSpaces(s) == SelectSeq(s, LAMBDA c : c # " ")

\* ------------------------------------------------------------------------
\* State name variations
\* ------------------------------------------------------------------------

\* the dict as a sequence of <<key, list of variations>>
STATE_VARIATIONS ==
  <<
     <<<<"t","a","m","i","l"," ","n","a","d","u">>,
       <<<<"t","a","m","i","l"," ","n","a","d","u">>,
         <<"t","a","m","i","l","n","a","d","u">>,
         <<"t","n">>,
         <<"t",".","n">>>>>>,
     <<<<"k","a","r","n","a","t","a","k","a">>,
       <<<<"k","a","r","n","a","t","a","k","a">>,
         <<"k","a">>,
         <<"k",".","a">>>>>>,
     <<<<"k","e","r","a","l","a">>,
       <<<<"k","e","r","a","l","a">>,
         <<"k","l">>,
         <<"k",".","l">>>>>>,
     <<<<"m","a","h","a","r","a","s","h","t","r","a">>,
       <<<<"m","a","h","a","r","a","s","h","t","r","a">>,
         <<"m","h">>,
         <<"m",".","h">>>>>>,
     <<<<"t","e","l","a","n","g","a","n","a">>,
       <<<<"t","e","l","a","n","g","a","n","a">>,
         <<"t","s">>,
         <<"t",".","s">>,
         <<"t","g">>>>>>,
     <<<<"a","n","d","h","r","a"," ","p","r","a","d","e","s","h">>,
       <<<<"a","n","d","h","r","a"," ","p","r","a","d","e","s","h">>,
         <<"a","p">>,
         <<"a",".","p">>>>>>,
     <<<<"w","e","s","t"," ","b","e","n","g","a","l">>,
       <<<<"w","e","s","t"," ","b","e","n","g","a","l">>,
         <<"w","b">>,
         <<"w",".","b">>>>>>,
     <<<<"g","u","j","a","r","a","t">>,
       <<<<"g","u","j","a","r","a","t">>,
         <<"g","j">>,
         <<"g",".","j">>>>>>,
     <<<<"r","a","j","a","s","t","h","a","n">>,
       <<<<"r","a","j","a","s","t","h","a","n">>,
         <<"r","j">>,
         <<"r",".","j">>>>>>,
     <<<<"m","a","d","h","y","a"," ","p","r","a","d","e","s","h">>,
       <<<<"m","a","d","h","y","a"," ","p","r","a","d","e","s","h">>,
         <<"m","p">>,
         <<"m",".","p">>>>>>,
     <<<<"u","t","t","a","r"," ","p","r","a","d","e","s","h">>,
       <<<<"u","t","t","a","r"," ","p","r","a","d","e","s","h">>,
         <<"u","p">>,
         <<"u",".","p">>>>>>
  >>

\* state_lower in STATE_VARIATIONS
IsKnownState(state_lower) ==
  \E i \in 1..Len(STATE_VARIATIONS) : STATE_VARIATIONS[i][1] = state_lower

\* variant: an unknown state is matched by its lowercased name only
GetStateVariationsNameOnly(state) ==
  IF ~Truthy(state) THEN <<>>
  ELSE LET state_lower == Strip(Lower(state))
       IN  IF IsKnownState(state_lower)
           THEN STATE_VARIATIONS[CHOOSE i \in 1..Len(STATE_VARIATIONS) :
                                   STATE_VARIATIONS[i][1] = state_lower][2]
           ELSE <<state_lower>>

GetStateVariations(state) ==
  IF ~Truthy(state) THEN <<>>
  ELSE LET state_lower == Strip(Lower(state))
       IN  IF IsKnownState(state_lower)
           THEN STATE_VARIATIONS[CHOOSE i \in 1..Len(STATE_VARIATIONS) :
                                   STATE_VARIATIONS[i][1] = state_lower][2]
           ELSE LET words == Split(state_lower)
                    abbreviations == <<state_lower>>
                    initials == [i \in 1..Len(words) |-> <<words[i][1]>>]
                IN  IF Len(words) > 1
                    THEN abbreviations
                           \o <<Join(<<>>, initials)>>
                           \o <<Join(<<".">>, initials) \o <<".">>>>
                    ELSE abbreviations

\* ------------------------------------------------------------------------
\* Geographic validation
\* ------------------------------------------------------------------------

\* (item.get("address") or "").lower()
ItemAddress(item) == Lower(IF Truthy(item.address) THEN item.address ELSE <<>>)

IsLocationValid(item, state, city, postcode) ==
  \E address \in {ItemAddress(item)},
     state_variations \in {GetStateVariations(state)} :
      IF address = <<>> THEN FALSE
      ELSE IF Truthy(postcode) /\ ~Contains(address, Lower(postcode)) THEN FALSE
      ELSE IF Truthy(state)
              /\ ~(\E k \in 1..Len(state_variations) :
                     Contains(address, state_variations[k]))
           THEN FALSE
      ELSE IF Truthy(city)
              /\ ~Contains(address, Strip(Lower(city)))
              /\ ~Contains(RemoveSpaces(address), RemoveSpaces(Strip(Lower(city))))
           THEN FALSE
      ELSE TRUE

\* ------------------------------------------------------------------------
\* Region anchor and country code
\* ------------------------------------------------------------------------

BuildRegionString(country, state, city) ==
  LET p1 == IF Truthy(city) THEN <<city>> ELSE <<>>
      p2 == IF Truthy(state) THEN Append(p1, state) ELSE p1
      parts == Append(p2, country)
  IN  Join(<<","," ">>, parts)

\* pycountry.countries.lookup(name.strip()).alpha_2.lower(): the catalogue is
\* external, here the entries the job inputs can hit (lookup ignores case)
CountryCatalog == << <<<<"i","n","d","i","a">>, <<"i","n">>>> >>

GetCountryCode(country_name) ==
  IF ~Truthy(country_name) THEN NoneVal
  ELSE LET name == Lower(Strip(country_name))
       IN  IF \E i \in 1..Len(CountryCatalog) : CountryCatalog[i][1] = name
           THEN CountryCatalog[CHOOSE i \in 1..Len(CountryCatalog) :
                                 CountryCatalog[i][1] = name][2]
           ELSE NoneVal

\* ------------------------------------------------------------------------
\* Query generation
\* ------------------------------------------------------------------------

\* The text of a response block is a sequence of tokens: the code-fence
\* markers (three backquotes, with or without "json"), whitespace, and JSON payloads.  json.loads is given by what each
\* payload parses to; a text that is not exactly one payload does not parse.
FenceJson == "<fence>json"

Fence == "<fence>"

GeneratedTerms ==
  << <<"g","y","m","s">>, <<"c","l","i","n","i","c","s">>, <<"h","o","s","p","i","t","a","l","s">>, <<"l","a","b","s">>,
     <<"d","e","n","t","i","s","t","s">>, <<"p","h","a","r","m","a","c","i","e","s">>, <<"o","p","t","i","c","i","a","n","s">>, <<"p","h","y","s","i","o","s">>,
     <<"v","e","t","s">> >>

JsonPayloads ==
  << <<"[]",       [is_list |-> TRUE,  elems |-> <<>>]>>,
     <<"[2]",      [is_list |-> TRUE,  elems |-> SubSeq(GeneratedTerms, 1, 2)]>>,
     <<"[9]",      [is_list |-> TRUE,  elems |-> GeneratedTerms]>>,
     <<"{}",       [is_list |-> FALSE, elems |-> <<>>]>>,
     <<"\"gyms\"", [is_list |-> FALSE, elems |-> <<>>]>> >>

\* text.replace(FenceJson, "").replace(Fence, "").strip()
CleanText(text) ==
  LET nofence == SelectSeq(text, LAMBDA t : t # FenceJson /\ t # Fence)
  IN  Strip(nofence)

JsonParses(text) ==
  Len(text) = 1 /\ \E i \in 1..Len(JsonPayloads) : JsonPayloads[i][1] = text[1]

JsonLoads(text) ==
  JsonPayloads[CHOOSE i \in 1..Len(JsonPayloads) : JsonPayloads[i][1] = text[1]][2]

\* text += block.get("text", "") over the blocks of type "text"
RECURSIVE ConcatTextBlocks(_)
ConcatTextBlocks(content) ==
  IF content = <<>> THEN <<>>
  ELSE (IF Head(content).type = "text" THEN Head(content).text ELSE <<>>)
         \o ConcatTextBlocks(Tail(content))

\* parsed[:6]
QueryCap == 6

\* variant: return parsed
CapQueriesNone(elems) == elems

\* return parsed[:6]
CapQueries(elems) == SubSeq(elems, 1, MinOf({QueryCap, Len(elems)}))

\* the body of the try block: the exception it ends with ("none": it returned)
LlmTry(resp) ==
  IF resp.kind = "network_error" THEN [exc |-> "ClientError", value |-> <<>>]
  ELSE IF resp.kind = "not_json" THEN [exc |-> "ContentTypeError", value |-> <<>>]
  ELSE IF ~resp.is_dict THEN [exc |-> "AttributeError", value |-> <<>>]
  ELSE LET text == CleanText(ConcatTextBlocks(resp.content))
       IN  IF ~JsonParses(text) THEN [exc |-> "JSONDecodeError", value |-> <<>>]
           ELSE LET parsed == JsonLoads(text)
                IN  IF ~parsed.is_list \/ parsed.elems = <<>>
                    THEN [exc |-> "ValueError", value |-> <<>>]
                    ELSE [exc |-> "none", value |-> CapQueries(parsed.elems)]

\* variant: except ValueError (json.JSONDecodeError is a ValueError)
LlmCaughtValueErrorOnly(exc) == exc \in {"ValueError", "JSONDecodeError"}

\* except Exception: every exception of the try block is caught
LlmCaught(exc) == exc # "none"

\* return [keyword] if keyword else [sector]
LlmFallback(sector, keyword) == IF Truthy(keyword) THEN <<keyword>> ELSE <<sector>>

GenerateSearchQueriesWithLlm(sector, keyword, region, resp) ==
  LET try == LlmTry(resp)
  IN  IF try.exc = "none" THEN [raised |-> FALSE, value |-> try.value]
      ELSE IF LlmCaught(try.exc)
      THEN [raised |-> FALSE, value |-> LlmFallback(sector, keyword)]
      ELSE [raised |-> TRUE, value |-> <<>>]

\* ------------------------------------------------------------------------
\* Credit check
\* ------------------------------------------------------------------------

\* float(remaining), in tenths of a credit; a string outside the table
\* raises ValueError
FloatLiterals ==
  << <<<<"0">>, 0>>, <<<<"0",".","1">>, 1>>, <<<<"0",".","2">>, 2>>, <<<<"5">>, 50>> >>

FloatParses(s) == \E i \in 1..Len(FloatLiterals) : FloatLiterals[i][1] = s

FloatTenths(s) ==
  FloatLiterals[CHOOSE i \in 1..Len(FloatLiterals) : FloatLiterals[i][1] = s][2]

\* float(remaining) < 0.2, in tenths
CreditThresholdTenths == 2

\* variant: the guard stops the job only when no credit is left
CreditTooLowNonPositive(remaining) ==
  /\ Truthy(remaining)
  /\ FloatParses(remaining)
  /\ FloatTenths(remaining) <= 0

\* the credit guard of main: TRUE when the job must stop with the error record
CreditTooLow(remaining) ==
  /\ Truthy(remaining)
  /\ FloatParses(remaining)
  /\ FloatTenths(remaining) < CreditThresholdTenths

CreditErrorRecord == [error |-> <<"I","n","s","u","f","f","i","c","i","e","n","t"," ","A","p","i","f","y"," ","c","r","e","d","i","t","s",".">>]

\* ------------------------------------------------------------------------
\* Search loop helpers
\* ------------------------------------------------------------------------

\* f"{x}" of an Optional[str]
Fmt(v) == IF v = NoneVal THEN <<"N","o","n","e">> ELSE v

\* variant: the key is built from the title and the phone
DedupKeyByPhone(item) == Fmt(item.title) \o <<"_">> \o Fmt(item.phone)

\* key = f"{item.get('title')}_{item.get('address')}"
DedupKey(item) == Fmt(item.title) \o <<"_">> \o Fmt(item.address)

\* variant: the loop without the location check
RECURSIVE ProcessItemsUnfiltered(_, _, _, _)
ProcessItemsUnfiltered(items, acc, keys, crit) ==
  IF items = <<>> THEN [all_items |-> acc, seen |-> keys]
  ELSE LET item == Head(items)
       IN  IF DedupKey(item) \notin keys
           THEN ProcessItemsUnfiltered(Tail(items), Append(acc, item),
                                       keys \cup {DedupKey(item)}, crit)
           ELSE ProcessItemsUnfiltered(Tail(items), acc, keys, crit)

\* the for loop over one read of the dataset
RECURSIVE ProcessItems(_, _, _, _)
ProcessItems(items, acc, keys, crit) ==
  IF items = <<>> THEN [all_items |-> acc, seen |-> keys]
  ELSE LET item == Head(items)
       IN  IF ~IsLocationValid(item, crit.state, crit.city, crit.postcode)
           THEN ProcessItems(Tail(items), acc, keys, crit)
           ELSE IF DedupKey(item) \notin keys
           THEN ProcessItems(Tail(items), Append(acc, item),
                             keys \cup {DedupKey(item)}, crit)
           ELSE ProcessItems(Tail(items), acc, keys, crit)

\* "maxCrawledPlacesPerSearch": min(max_results * 2, 50)
ProviderCeiling == 50

MaxCrawledPlaces(max_results) ==
  IF max_results * 2 < ProviderCeiling THEN max_results * 2 ELSE ProviderCeiling

\* f"{query} in {region}".strip()
SearchString(query, reg) == Strip(query \o <<" ","i","n"," ">> \o reg)

LeadRecord(item, keyword, sector) ==
  [name |-> item.title, phone |-> item.phone, address |-> item.address,
   searchQuery |-> IF Truthy(keyword) THEN keyword ELSE sector]

\* variant: the final loop without its break
FinalResultsUntruncated(items, acc, max_results, keyword, sector) ==
  acc \o [i \in 1..Len(items) |-> LeadRecord(items[i], keyword, sector)]

\* the final loop: append, then break once len(final_results) >= max_results
RECURSIVE FinalResults(_, _, _, _, _)
FinalResults(items, acc, max_results, keyword, sector) ==
  IF items = <<>> THEN acc
  ELSE LET acc2 == Append(acc, LeadRecord(Head(items), keyword, sector))
       IN  IF Len(acc2) >= max_results THEN acc2
           ELSE FinalResults(Tail(items), acc2, max_results, keyword, sector)

\* time.time() - START_TIME > 120
DEADLINE == 120

\* await asyncio.sleep(3)
SLEEP == 3

\* timeout=aiohttp.ClientTimeout(total=30)
LLM_TIMEOUT == 30

\* ------------------------------------------------------------------------
\* Inputs of the job and of its collaborators
\* ------------------------------------------------------------------------

\* largest small maxResults of the job inputs
MaxTarget == 2

\* a maxResults that one accumulated record leaves a need of 3 of
MidTarget == 4

\* a maxResults above the provider ceiling's half
LargeTarget == 26

\* most records the provider puts into one result collection
MaxDataset == 2

Sectors == { <<"H","e","a","l","t","h","c","a","r","e">> }

Keywords == { <<>>, <<" ","c","l","i","n","i","c">> }

\* country, state, city, postcode as given in the job input (not yet stripped)
Locations ==
  { [country |-> <<"I","n","d","i","a">>, state |-> <<"K","a","r","n","a","t","a","k","a">>, city |-> <<"B","a","n","g","a","l","o","r","e">>,
     postcode |-> <<"5","6","0","0","0","1">>],
    [country |-> <<>>, state |-> <<>>, city |-> <<>>, postcode |-> <<>>] }

MaxResultsValues == (0..MaxTarget) \cup {MidTarget, LargeTarget}

\* APIFY_USER_REMAINING_CREDITS as the environment gives it
RemainingValues == { NoneVal, <<"n","/","a">>, <<"0">>, <<"0",".","1">>, <<"0",".","2">> }

\* what the generation service can answer
TextBlock(tokens) == [type |-> "text", text |-> tokens]

LlmBody(kind, status, is_dict, content) ==
  [kind |-> kind, status |-> status, is_dict |-> is_dict, content |-> content]

LlmResponses ==
  { LlmBody("network_error", 0, FALSE, <<>>),
    LlmBody("not_json", 502, FALSE, <<>>),
    LlmBody("json", 200, FALSE, <<>>),
    LlmBody("json", 401, TRUE, <<>>),
    LlmBody("json", 200, TRUE, <<TextBlock(<<"oops">>)>>),
    LlmBody("json", 200, TRUE, <<TextBlock(<<"{}">>)>>),
    LlmBody("json", 200, TRUE, <<TextBlock(<<"\"gyms\"">>)>>),
    LlmBody("json", 200, TRUE, <<TextBlock(<<"[]">>)>>),
    LlmBody("json", 200, TRUE,
            <<[type |-> "thinking", text |-> <<"[9]">>], TextBlock(<<"[2]">>)>>),
    LlmBody("json", 200, TRUE,
            <<TextBlock(<<FenceJson, " ">>), TextBlock(<<"[9]", " ", Fence>>)>>) }

\* the places the provider can return
Place(title, address, phone) == [title |-> title, address |-> address, phone |-> phone]

Places ==
  { Place(<<"A","p","o","l","l","o">>, <<"B","a","n","g","a","l","o","r","e",","," ","K","A"," ","5","6","0","0","0","1">>, <<"1">>),
    Place(<<"A","p","o","l","l","o">>, <<"B","a","n","g","a","l","o","r","e",","," ","K","A"," ","5","6","0","0","0","1">>, <<"2">>),
    Place(<<"F","o","r","t","i","s">>, <<"M","y","s","o","r","e",","," ","K","a","r","n","a","t","a","k","a">>, <<"3">>),
    Place(<<"C","a","r","e","_","B","a","n","g","a","l","o","r","e">>, <<"K","A"," ","5","6","0","0","0","1">>, <<"4">>),
    Place(<<"C","a","r","e">>, <<"B","a","n","g","a","l","o","r","e","_","K","A"," ","5","6","0","0","0","1">>, <<"5">>) }

\* seconds one read of the result collection can take: two slow reads, so
\* that a pass of the while loop takes 30 or 60 seconds; faster reads only
\* add passes before the deadline
CallDelays == {27, 57}

\* the clock is read only in "elapsed > DEADLINE": past it, one value stands
\* for all
Clock(t) == IF t > DEADLINE THEN DEADLINE + 1 ELSE t

\* ------------------------------------------------------------------------
\* The job
\* ------------------------------------------------------------------------

\* filtered_count is only logged and is left out

VARIABLES
  pc,         \* position of main
  inp,        \* sector, keyword, country, state, city, postcode, max_results
  region,     \* region anchor
  queries,    \* query terms
  qi,         \* number of query terms the for loop has taken
  all_items,  \* accumulator
  seen,       \* dedup keys
  sessions,   \* the search sessions started, in order, with the aborts each got
  dataset,    \* the result collection of the running session (cumulative)
  elapsed,    \* time.time() - START_TIME
  pushed,     \* records given to Actor.push_data
  remaining,  \* APIFY_USER_REMAINING_CREDITS as read by the credit check
  env_token,  \* APIFY_TOKEN in os.environ, as found when the client is made
  geo,        \* one call of is_location_valid: its arguments and result
  gen         \* one call of generate_search_queries_with_llm

vars == <<pc, inp, region, queries, qi, all_items, seen, sessions, dataset,
          elapsed, pushed, remaining, env_token, env_token, geo, gen>>

jobvars == <<pc, inp, region, queries, qi, all_items, seen, sessions, dataset,
             elapsed, pushed, remaining, env_token>>

NoInput ==
  [sector |-> <<>>, keyword |-> <<>>, country |-> <<>>, state |-> <<>>,
   city |-> <<>>, postcode |-> <<>>, max_results |-> 0]

GeoIdle ==
  [item |-> Place(<<>>, <<>>, <<>>), state |-> <<>>, city |-> <<>>,
   postcode |-> <<>>, called |-> FALSE, result |-> FALSE]

GenIdle ==
  [sector |-> <<>>, keyword |-> <<>>, region |-> <<>>,
   resp |-> LlmBody("network_error", 0, FALSE, <<>>), called |-> FALSE,
   result |-> [raised |-> FALSE, value |-> <<>>]]

JobInit ==
  /\ pc = "read_input"
  /\ inp = NoInput
  /\ region = <<>>
  /\ queries = <<>>
  /\ qi = 0
  /\ all_items = <<>>
  /\ seen = {}
  /\ sessions = <<>>
  /\ dataset = <<>>
  /\ elapsed = 0
  /\ pushed = <<>>
  /\ remaining = NoneVal
  /\ env_token = "unread"

Init == JobInit /\ geo = GeoIdle /\ gen = GenIdle

\* main, lines 173-181: read and strip the input
ReadInput ==
  /\ pc = "read_input"
  /\ \E s \in Sectors, k \in Keywords, l \in Locations, m \in MaxResultsValues :
       inp' = [sector |-> s, keyword |-> Strip(k), country |-> Strip(l.country),
               state |-> Strip(l.state), city |-> Strip(l.city),
               postcode |-> Strip(l.postcode), max_results |-> m]
  /\ pc' = "credit"
  /\ UNCHANGED <<region, queries, qi, all_items, seen, sessions, dataset,
                 elapsed, pushed, remaining, env_token, geo, gen>>

\* credit safety: push the error record and return
CreditStop ==
  /\ pc = "credit"
  /\ \E r \in RemainingValues : CreditTooLow(r) /\ remaining' = r
  /\ pushed' = Append(pushed, CreditErrorRecord)
  /\ pc' = "done"
  /\ UNCHANGED <<inp, region, queries, qi, all_items, seen, sessions, dataset,
                 elapsed, env_token, geo, gen>>

\* credit safety: enough credits, none reported, or not a number
CreditPass ==
  /\ pc = "credit"
  /\ \E r \in RemainingValues : ~CreditTooLow(r) /\ remaining' = r
  /\ pc' = "generate"
  /\ UNCHANGED <<inp, region, queries, qi, all_items, seen, sessions, dataset,
                 elapsed, pushed, env_token, geo, gen>>

\* build the region, then generate the queries
Generate ==
  /\ pc = "generate"
  /\ region' = BuildRegionString(inp.country, inp.state, inp.city)
  /\ \E resp \in LlmResponses, d \in {0, LLM_TIMEOUT} :
       LET r == GenerateSearchQueriesWithLlm(inp.sector, inp.keyword, region', resp)
       IN  /\ queries' = r.value
           /\ pc' = IF r.raised THEN "crashed" ELSE "client"
           /\ elapsed' = Clock(elapsed + d)
  /\ UNCHANGED <<inp, qi, all_items, seen, sessions, dataset, pushed,
                 remaining, env_token, geo, gen>>

\* variant: os.environ.get("APIFY_TOKEN"), the client is made without a token
ClientOutcomeLenient(token) == "for_head"

\* os.environ["APIFY_TOKEN"]: KeyError without the token, which ends main
ClientOutcome(token) == IF token = "present" THEN "for_head" ELSE "crashed"

\* ApifyClient(token=os.environ["APIFY_TOKEN"]), then the empty accumulator
CreateClient ==
  /\ pc = "client"
  /\ \E token \in {"present", "missing"} :
       /\ env_token' = token
       /\ pc' = ClientOutcome(token)
  /\ all_items' = <<>>
  /\ seen' = {}
  /\ UNCHANGED <<inp, region, queries, qi, sessions, dataset, elapsed, pushed,
                 remaining, geo, gen>>

\* variant: the terms are taken from the end of the list
NextQueryReversed(qs, i) == qs[Len(qs) - i]

\* for query in queries: the term of the iteration after i completed ones
NextQuery(qs, i) == qs[i + 1]

\* for query in queries: build run_input and start the run
StartSession ==
  /\ pc = "for_head"
  /\ qi < Len(queries)
  /\ qi' = qi + 1
  /\ sessions' = Append(sessions,
       [query |-> NextQuery(queries, qi),
        search_string |-> SearchString(NextQuery(queries, qi), region),
        max_crawled |-> MaxCrawledPlaces(inp.max_results),
        country_code |-> GetCountryCode(inp.country),
        aborts |-> 0])
  /\ dataset' = <<>>
  /\ pc' = "polling"
  /\ UNCHANGED <<inp, region, queries, all_items, seen, elapsed, pushed,
                 remaining, env_token, geo, gen>>

\* the for loop has no query left
QueriesExhausted ==
  /\ pc = "for_head"
  /\ qi = Len(queries)
  /\ pc' = "output"
  /\ UNCHANGED <<inp, region, queries, qi, all_items, seen, sessions, dataset,
                 elapsed, pushed, remaining, env_token, geo, gen>>

\* the provider adds a place to the running session's collection
ProviderAppend ==
  /\ pc = "polling"
  /\ Len(dataset) < MaxDataset
  /\ \E p \in Places : dataset' = Append(dataset, p)
  /\ UNCHANGED <<pc, inp, region, queries, qi, all_items, seen, sessions,
                 elapsed, pushed, remaining, env_token, geo, gen>>

\* variant: the abort call is left out
AbortCurrentSkipped(ss) == ss

\* client.run(run_id).abort() on the session of the current query
AbortCurrent(ss) == [ss EXCEPT ![Len(ss)].aborts = @ + 1]

\* variant: the outer loop goes on after the inner break
AfterInnerLoopNoBreak(collected, max_results) == "for_head"

\* after the inner break: if len(all_items) >= max_results: break
AfterInnerLoop(collected, max_results) ==
  IF collected >= max_results THEN "output" ELSE "for_head"

\* variant: the deadline test never fires
DeadlineNever(t) == FALSE

\* time.time() - START_TIME > 120
DeadlinePassed(t) == t > DEADLINE

\* one pass of the while loop that ends with the target met: read, filter
\* and dedup, abort, break; then the outer break
PollTargetMet ==
  /\ pc = "polling"
  /\ \E r \in {ProcessItems(dataset, all_items, seen, inp)} :
         /\ Len(r.all_items) >= inp.max_results
         /\ all_items' = r.all_items
         /\ seen' = r.seen
  /\ \E d \in CallDelays : elapsed' = Clock(elapsed + d)
  /\ sessions' = AbortCurrent(sessions)
  /\ pc' = AfterInnerLoop(Len(all_items'), inp.max_results)
  /\ UNCHANGED <<inp, region, queries, qi, dataset, pushed, remaining,
                 env_token, geo, gen>>

\* one pass that ends with the deadline passed: read, filter and dedup,
\* abort, break; the for loop goes on
PollTimeExpired ==
  /\ pc = "polling"
  /\ \E r \in {ProcessItems(dataset, all_items, seen, inp)} :
         /\ Len(r.all_items) < inp.max_results
         /\ all_items' = r.all_items
         /\ seen' = r.seen
  /\ \E d \in CallDelays :
       /\ DeadlinePassed(elapsed + d)
       /\ elapsed' = Clock(elapsed + d)
  /\ sessions' = AbortCurrent(sessions)
  /\ pc' = AfterInnerLoop(Len(all_items'), inp.max_results)
  /\ UNCHANGED <<inp, region, queries, qi, dataset, pushed, remaining,
                 env_token, geo, gen>>

\* one pass that ends in the sleep
PollSleep ==
  /\ pc = "polling"
  /\ \E r \in {ProcessItems(dataset, all_items, seen, inp)} :
         /\ Len(r.all_items) < inp.max_results
         /\ all_items' = r.all_items
         /\ seen' = r.seen
  /\ \E d \in CallDelays :
       /\ ~DeadlinePassed(elapsed + d)
       /\ elapsed' = Clock(elapsed + d + SLEEP)
  /\ UNCHANGED <<pc, inp, region, queries, qi, sessions, dataset, pushed,
                 remaining, env_token, geo, gen>>

\* final output
Output ==
  /\ pc = "output"
  /\ pushed' = pushed \o FinalResults(all_items, <<>>, inp.max_results,
                                      inp.keyword, inp.sector)
  /\ pc' = "done"
  /\ UNCHANGED <<inp, region, queries, qi, all_items, seen, sessions, dataset,
                 elapsed, remaining, env_token, geo, gen>>

Next ==
  \/ ReadInput
  \/ CreditStop
  \/ CreditPass
  \/ Generate
  \/ CreateClient
  \/ StartSession
  \/ QueriesExhausted
  \/ ProviderAppend
  \/ PollTargetMet
  \/ PollTimeExpired
  \/ PollSleep
  \/ Output

Spec == Init /\ [][Next]_vars

\* the steps of main itself: it runs on as long as it can take a step; the
\* provider owes no step
JobStep ==
  \/ ReadInput
  \/ CreditStop
  \/ CreditPass
  \/ Generate
  \/ CreateClient
  \/ StartSession
  \/ QueriesExhausted
  \/ PollTargetMet
  \/ PollTimeExpired
  \/ PollSleep
  \/ Output

FairSpec == Spec /\ WF_vars(JobStep)

\* ------------------------------------------------------------------------
\* is_location_valid on its own, over arguments main does not pre-strip
\* ------------------------------------------------------------------------

GeoStates ==
  { <<>>, <<" ">>, <<"T","a","m","i","l"," ","N","a","d","u">>, <<"k","e","r","a","l","a"," ">>, <<"G","o","a">>, <<"H","i","m","a","c","h","a","l"," ","P","r","a","d","e","s","h">> }

GeoCities == { <<>>, <<"C","h","e","n","n","a","i">>, <<"N","e","w"," ","D","e","l","h","i">> }

GeoPostcodes == { <<>>, <<"6","0","0","0","0","2">> }

GeoAddresses ==
  { NoneVal, <<>>,
    <<"1","2"," ","A","n","n","a"," ","S","a","l","a","i",","," ","C","h","e","n","n","a","i",","," ","T","N"," ","6","0","0","0","0","2">>,
    <<"C","h","e","n","n","a","i",","," ","T","a","m","i","l","n","a","d","u">>,
    <<"M","G"," ","R","o","a","d",","," ","K","o","c","h","i",","," ","K","e","r","a","l","a">>,
    <<"P","a","n","a","j","i",","," ","G","o","a">>,
    <<"S","h","i","m","l","a",","," ","H",".","P","."," ","1","7","1","0","0","1">>,
    <<"S","h","i","m","l","a"," ","H","P">>,
    <<"M","a","l","l"," ","R","o","a","d",","," ","H","i","m","a","c","h","a","l"," ","P","r","a","d","e","s","h">>,
    <<"N","e","w","d","e","l","h","i"," ","6","0","0","0","0","2">> }

GeoInit ==
  /\ JobInit
  /\ gen = GenIdle
  /\ \E a \in GeoAddresses, s \in GeoStates, c \in GeoCities, p \in GeoPostcodes :
       geo = [item |-> Place(<<"C","l","i","n","i","c">>, a, <<>>), state |-> s, city |-> c,
              postcode |-> p, called |-> FALSE, result |-> FALSE]

GeoValidate ==
  /\ ~geo.called
  /\ geo' = [geo EXCEPT !.called = TRUE,
                        !.result = IsLocationValid(geo.item, geo.state, geo.city,
                                                   geo.postcode)]
  /\ UNCHANGED <<jobvars, gen>>

GeoNext == GeoValidate

GeoSpec == GeoInit /\ [][GeoNext]_vars

\* ------------------------------------------------------------------------
\* generate_search_queries_with_llm on its own, over every answer of the
\* generation service
\* ------------------------------------------------------------------------

GenSectors == { <<>>, <<"H","e","a","l","t","h","c","a","r","e">> }

GenKeywords == { <<>>, <<"c","l","i","n","i","c">>, <<" ">> }

GenInit ==
  /\ JobInit
  /\ geo = GeoIdle
  /\ \E s \in GenSectors, k \in GenKeywords, resp \in LlmResponses :
       gen = [sector |-> s, keyword |-> k, region |-> <<"I","n","d","i","a">>, resp |-> resp,
              called |-> FALSE, result |-> [raised |-> FALSE, value |-> <<>>]]

GenCall ==
  /\ ~gen.called
  /\ gen' = [gen EXCEPT !.called = TRUE,
                        !.result = GenerateSearchQueriesWithLlm(
                                     gen.sector, gen.keyword, gen.region, gen.resp)]
  /\ UNCHANGED <<jobvars, geo>>

GenNext == GenCall

GenSpec == GenInit /\ [][GenNext]_vars

\* ------------------------------------------------------------------------
\* Properties
\* ------------------------------------------------------------------------

\* a pushed record that is a lead (not the error record)
IsLead(r) == "name" \in DOMAIN r

Leads == SelectSeq(pushed, IsLead)

\* the (name, address) pair of a place and of a lead
PlaceIdentity(item) == <<item.title, item.address>>

LeadIdentity(r) == <<r.name, r.address>>

JobCriteriaValid(address) ==
  IsLocationValid([address |-> address], inp.state, inp.city, inp.postcode)

\* C1: no two records of the accumulator, and no two leads of the output,
\* have the same (name, address) pair, over all query terms of the job.
C1_UniqueIdentity ==
  /\ \A i, j \in 1..Len(all_items) :
       i # j => PlaceIdentity(all_items[i]) # PlaceIdentity(all_items[j])
  /\ \A i, j \in 1..Len(Leads) :
       i # j => LeadIdentity(Leads[i]) # LeadIdentity(Leads[j])

\* C1 witness: the job ended after two query terms with at least two leads,
\* and the second term's collection held a record that differs from an
\* accumulated one but has its (name, address) pair.
C1_Witness ==
  /\ pc = "done"
  /\ Len(sessions) >= 2
  /\ Len(Leads) >= 2
  /\ \E k \in 1..Len(dataset), i \in 1..Len(all_items) :
       /\ dataset[k] # all_items[i]
       /\ PlaceIdentity(dataset[k]) = PlaceIdentity(all_items[i])

\* C2 (as claimed): for every maxResults >= 0, 0 included, the output holds
\* at most maxResults leads.
C2_OutputWithinMax ==
  (pc = "done" /\ inp.max_results >= 0) => Len(Leads) <= inp.max_results

\* C3: every started session got at most one abort, and every session but
\* the last started one got its abort: a session is aborted before the next
\* starts, and at most one session is started and not aborted.
C3_AbortDiscipline ==
  /\ \A i \in 1..Len(sessions) : sessions[i].aborts <= 1
  /\ \A i \in 1..(Len(sessions) - 1) : sessions[i].aborts = 1
  /\ (pc # "polling" /\ sessions # <<>>) => sessions[Len(sessions)].aborts = 1

\* C3 witness: a second session is polling after the first was aborted.
C3_Witness ==
  /\ pc = "polling"
  /\ Len(sessions) = 2
  /\ sessions[1].aborts = 1
  /\ sessions[2].aborts = 0

\* the credit value read parses to a number below the threshold
ReadBelowThreshold ==
  /\ pc \notin {"read_input", "credit"}
  /\ FloatParses(remaining)
  /\ FloatTenths(remaining) < CreditThresholdTenths

\* C4: after the credit check read a value below the threshold, the job has
\* ended, its output is exactly the one error record, and no session was
\* started.
C4_CreditStop ==
  ReadBelowThreshold =>
    /\ pc = "done"
    /\ Len(pushed) = 1
    /\ "error" \in DOMAIN pushed[1]
    /\ sessions = <<>>

\* C4 witness: the check read "0.1" and the job ended.
C4_Witness == ReadBelowThreshold /\ remaining = <<"0",".","1">> /\ pc = "done"

\* the generation call failed: no answer, an answer that is no JSON, an
\* error response, or a text that is not a non-empty JSON array
LlmCallFailed(resp) ==
  \/ resp.kind \in {"network_error", "not_json"}
  \/ resp.status # 200
  \/ LET text == CleanText(ConcatTextBlocks(resp.content))
     IN  \/ ~JsonParses(text)
         \/ ~JsonLoads(text).is_list
         \/ JsonLoads(text).elems = <<>>

\* C5: on every failure of the generation call the function does not raise
\* and returns [keyword] when keyword is non-empty, else [sector].
C5_Fallback ==
  (gen.called /\ LlmCallFailed(gen.resp)) =>
    /\ ~gen.result.raised
    /\ gen.result.value =
         (IF gen.keyword # <<>> THEN <<gen.keyword>> ELSE <<gen.sector>>)

\* C5 witness: the network failed and the keyword came back as the one query.
C5_Witness ==
  /\ gen.called
  /\ gen.resp.kind = "network_error"
  /\ gen.keyword = <<"c","l","i","n","i","c">>
  /\ gen.result.value = <<<<"c","l","i","n","i","c">>>>

\* C6 (as claimed): with a postcode supplied, the region anchor the job
\* built and the search string of every started session contain the postcode.
C6_PostcodeLedAnchor ==
  (sessions # <<>> /\ Truthy(inp.postcode)) =>
    /\ Contains(region, inp.postcode)
    /\ \A i \in 1..Len(sessions) : Contains(sessions[i].search_string, inp.postcode)

\* first letters of the words of s
Initials(s) ==
  [k \in 1..Len(Split(s)) |-> Head(Split(s)[k])]

\* first letters of the words of s, a dot after each
RECURSIVE Dotted(_)
Dotted(letters) ==
  IF letters = <<>> THEN <<>> ELSE <<Head(letters), ".">> \o Dotted(Tail(letters))

\* the registered alias list of a known state
RegisteredAliases(name) ==
  UNION { {STATE_VARIATIONS[i][2][k] : k \in 1..Len(STATE_VARIATIONS[i][2])} :
          i \in {j \in 1..Len(STATE_VARIATIONS) : STATE_VARIATIONS[j][1] = name} }

\* the variants as claimed: for an unknown state the lowercased name, its
\* acronym and its dotted acronym
ClaimedVariants(state) ==
  LET name == Strip(Lower(state))
  IN  IF RegisteredAliases(name) # {} THEN RegisteredAliases(name)
      ELSE {name, Initials(name), Dotted(Initials(name))}

\* the variants as amended: the acronyms only for a name of several words
AmendedVariants(state) ==
  LET name == Strip(Lower(state))
  IN  IF RegisteredAliases(name) # {} THEN RegisteredAliases(name)
      ELSE IF Len(Split(name)) > 1
      THEN {name, Initials(name), Dotted(Initials(name))}
      ELSE {name}

\* only the state is supplied to the call
StateOnlyCall == geo.called /\ Truthy(geo.state) /\ ~Truthy(geo.city) /\ ~Truthy(geo.postcode)

\* C7 (as claimed, for a state with a non-blank character): with only a
\* state supplied, the record is accepted exactly when its lowercased address
\* contains one of the claimed variants.
C7_StateVariantsClaimed ==
  (StateOnlyCall /\ Strip(geo.state) # <<>>) =>
    (geo.result <=> \E v \in ClaimedVariants(geo.state) :
                      Contains(ItemAddress(geo.item), v))

\* C7 (amended): with only a state supplied that has a non-blank character,
\* the record is accepted exactly when its lowercased address contains the
\* lowercased trimmed name's registered alias, or for an unknown state the
\* name itself or, for a name of two or more words, its acronym, plain or
\* with a dot after each letter.
C7_StateVariants ==
  (StateOnlyCall /\ Strip(geo.state) # <<>>) =>
    (geo.result <=> \E v \in AmendedVariants(geo.state) :
                      Contains(ItemAddress(geo.item), v))

\* C7 witness: an unknown two-word state accepted by its acronym.
C7_Witness ==
  /\ StateOnlyCall
  /\ geo.state = <<"H","i","m","a","c","h","a","l"," ","P","r","a","d","e","s","h">>
  /\ geo.item.address = <<"S","h","i","m","l","a"," ","H","P">>
  /\ geo.result

\* each criterion against the address, as the validator matches it
PostcodeMatches(address, postcode) == Contains(address, Lower(postcode))

StateMatches(address, state) ==
  \E k \in 1..Len(GetStateVariations(state)) :
    Contains(address, GetStateVariations(state)[k])

CityMatches(address, city) ==
  \/ Contains(address, Strip(Lower(city)))
  \/ Contains(RemoveSpaces(address), RemoveSpaces(Strip(Lower(city))))

\* C8 (as claimed): the result is true exactly when every supplied criterion
\* matches the address; with none supplied it is true whatever the address.
C8_SuppliedCriteriaOnly ==
  geo.called =>
    (geo.result <=>
       /\ Truthy(geo.postcode) => PostcodeMatches(ItemAddress(geo.item), geo.postcode)
       /\ Truthy(geo.state) => StateMatches(ItemAddress(geo.item), geo.state)
       /\ Truthy(geo.city) => CityMatches(ItemAddress(geo.item), geo.city))

\* C9: every record of the accumulator, and every lead of the output,
\* passes the validator for the job's state, city and postcode.
C9_AccumulatorValid ==
  /\ \A i \in 1..Len(all_items) : JobCriteriaValid(all_items[i].address)
  /\ \A i \in 1..Len(Leads) : JobCriteriaValid(Leads[i].address)

\* C9 witness: the job ended with a lead, and the last collection read held
\* a record that fails the validator.
C9_Witness ==
  /\ pc = "done"
  /\ Len(Leads) >= 1
  /\ \E k \in 1..Len(dataset) : ~JobCriteriaValid(dataset[k].address)

\* C10: once a session has been started and the accumulator holds
\* maxResults records or more, no further session is started.
C10_NoSessionAfterTarget ==
  [][(sessions # <<>> /\ Len(all_items) >= inp.max_results)
       => Len(sessions') = Len(sessions)]_vars

\* C10 witness: the job ended on the target, maxResults >= 1, with query
\* terms left that got no session.
C10_Witness ==
  /\ pc = "done"
  /\ inp.max_results >= 1
  /\ Len(all_items) >= inp.max_results
  /\ Len(sessions) < Len(queries)

\* C11 (as claimed): once more than DEADLINE seconds have passed since the
\* start of the job, no session is started.
C11_NoSessionAfterDeadline ==
  [][elapsed > DEADLINE => Len(sessions') = Len(sessions)]_vars

C13_TargetBeforeDeadline ==
  (/\ pc = "done"
   /\ inp.max_results >= 1
   /\ Len(all_items) >= inp.max_results
   /\ elapsed <= DEADLINE)
  => /\ Len(Leads) = inp.max_results
     /\ \A i, j \in 1..Len(Leads) :
          LeadIdentity(Leads[i]) = LeadIdentity(Leads[j]) => i = j
     /\ Len(sessions) = 1
     /\ sessions[1].query = queries[1]

\* C13 witness: the target of 1 was passed within the deadline by a read
\* that added two records, with a second query term left unused.
C13_Witness ==
  /\ pc = "done"
  /\ inp.max_results = 1
  /\ Len(all_items) = 2
  /\ elapsed <= DEADLINE
  /\ Len(queries) >= 2
  /\ Len(Leads) = 1

\* C14: every call of generate_search_queries_with_llm returns (it raises
\* nothing) a sequence of at least one and at most 8 query terms, whether
\* the parsed array was returned, capped, or the fallback was.
C14_QueryCount ==
  gen.called =>
    /\ ~gen.result.raised
    /\ Len(gen.result.value) >= 1
    /\ Len(gen.result.value) <= 8

\* C14 witness: the service answered an array of more than 8 terms and the
\* call returned its first QueryCap terms.
C14_Witness ==
  /\ gen.called
  /\ LlmTry(gen.resp).exc = "none"
  /\ Len(JsonLoads(CleanText(ConcatTextBlocks(gen.resp.content))).elems) > 8
  /\ gen.result.value = SubSeq(GeneratedTerms, 1, QueryCap)

\* C15: at every moment the started sessions are, in order and one per
\* term, the sessions of a prefix of the generated query list; and every pass
\* of the while loop leaves nothing of its read unprocessed: each valid
\* record of the collection it read has its key among the seen ones before
\* the next read.
C15_SessionOrder ==
  /\ [](/\ Len(sessions) = qi
        /\ qi <= Len(queries)
        /\ \A i \in 1..Len(sessions) : sessions[i].query = queries[i])
  /\ [][(pc = "polling" /\ dataset' = dataset) =>
          \A k \in 1..Len(dataset) :
            JobCriteriaValid(dataset[k].address) => DedupKey(dataset[k]) \in seen']_vars

\* C15 witness: two sessions were started for the first two of at least
\* three different terms, and a read of the second has been processed.
C15_Witness ==
  /\ Len(sessions) = 2
  /\ Len(queries) >= 3
  /\ queries[1] # queries[2]
  /\ pc = "polling"
  /\ dataset # <<>>
  /\ \A k \in 1..Len(dataset) : DedupKey(dataset[k]) \in seen

\* C16 (as claimed): whenever a session is started, the cap sent to the
\* provider is a positive multiple of the remaining need (maxResults less the
\* number of accumulated records), or the ceiling ProviderCeiling where that
\* multiple reaches it.
C16_CapFromRemainingNeed ==
  [][Len(sessions') > Len(sessions) =>
       LET cap == sessions'[Len(sessions')].max_crawled
           need == inp.max_results - Len(all_items)
       IN  /\ cap <= ProviderCeiling
           /\ \E k \in 1..ProviderCeiling :
                \/ cap = k * need
                \/ cap = ProviderCeiling /\ k * need >= ProviderCeiling]_vars

\* C17: a job that found the provider credential missing has failed: it is
\* at its crash, it started no session and it pushed nothing, at that moment
\* and ever after.
C17_MissingCredentialFatal ==
  env_token = "missing" =>
    /\ pc = "crashed"
    /\ sessions = <<>>
    /\ pushed = <<>>

\* C17 witness: the credential was read and found missing, the queries
\* already generated.
C17_Witness ==
  /\ env_token = "missing"
  /\ pc = "crashed"
  /\ queries # <<>>

\* C18 (as claimed): after every pass of the while loop, each valid record
\* of the collection it read has its (name, address) pair in the
\* accumulator: a record with a new pair is never dropped as a duplicate.
C18_NewPairKept ==
  [][(pc = "polling" /\ dataset' = dataset) =>
       \A k \in 1..Len(dataset) :
         JobCriteriaValid(dataset[k].address) =>
           \E i \in 1..Len(all_items') :
             PlaceIdentity(all_items'[i]) = PlaceIdentity(dataset[k])]_vars

====
